---- MODULE Spec2Model ----
(***************************************************************************)
(* Model of scripts.js, the interactivity layer of the landing page:       *)
(* the mobile menu (initMobileMenu / createMobileMenuButton), the contact  *)
(* form (validateField / initFormValidation / handleFormSubmission /       *)
(* showFormMessage) and the helpers isValidEmail and debounce.             *)
(*                                                                         *)
(* Strings the code inspects character by character (field values) are     *)
(* sequences of one-character strings; attribute values are strings, and   *)
(* "none" stands for an attribute that is not set.                         *)
(***************************************************************************)
EXTENDS Integers, Sequences, FiniteSets, TLC

VARIABLES
  \* ---- mobile menu --------------------------------------------------
  innerWidth,     \* window.innerWidth
  hasNavContainer,\* document.querySelector('.nav-container') finds an element
  buttons,        \* every toggle button created so far, in creation order:
                  \*   [ariaExpanded, inDOM]; button i owns the i-th document
                  \*   click listener and the i-th document keydown listener
  nav,            \* the 'nav ul' element: [classOpen, ariaHidden, display]
  resizeTimer,    \* the debounce closure's timeout is pending
  initWidth,      \* window.innerWidth when init() ran
  lastEvalWidth,  \* window.innerWidth at the last evaluation (init or debounced)
  resizeCount,    \* resize events dispatched so far
  crossDown,      \* resize events that took the width from >= 768 to < 768
  crossUp,        \* resize events that took the width from < 768 to >= 768
  evalDown,       \* debounced evaluations that found the width < 768 after >= 768
  evalUp,         \* debounced evaluations that found the width >= 768 after < 768
  lastMenuEvent,  \* the last menu event handled, with the state it found
  \* ---- shared -------------------------------------------------------
  focus,          \* document.activeElement: <<"page",0>>, <<"toggle",i>>, <<"field",i>>
  \* ---- contact form -------------------------------------------------
  fieldValue,     \* field index -> value (sequence of characters)
  ariaInvalid,    \* field index -> "none" | "true" | "false"
  errorText,      \* field index -> textContent of the field's error container
  submitButton,   \* [present, ariaBusy, disabled, textContent]
  pending,        \* handleFormSubmission calls waiting at the await, oldest first:
                  \*   [originalText]
  messages,       \* every .form-message element created so far:
                  \*   [type, inDOM, timer]
  formChildren,   \* the children of the form in document order: <<"message", i>>
                  \*   for message i, <<"markup", k>> for the k-th child of the markup
  submitCount,    \* submissions started so far
  lastFormEvent,  \* the last form event handled, with the state it found
  \* ---- validateField on arbitrary fields ------------------------------
  vfField,        \* the field passed to validateField
  vfOut,          \* what the call left behind
  \* ---- scroll-triggered reveal ---------------------------------------
  hasIntersectionObserver, \* 'IntersectionObserver' in window
  revealElems,    \* animated element -> [reveal, revealVisible, observed,
                  \*   intersecting, reported, handled, entered]
  viewChanges,    \* viewport entries and exits so far
  \* ---- header scroll effect ------------------------------------------
  hasHeader,      \* document.querySelector('header') finds an element
  scrollY,        \* window.scrollY
  scrollTimer,    \* the timeout of the debounced scroll handler is pending
  headerScrolled, \* the header has class 'scrolled'
  scrollCount,    \* scroll events dispatched so far
  \* ---- smooth scroll navigation --------------------------------------
  hasPushState,   \* history.pushState is available
  historyEntries, \* the session history: the URL fragment of every entry
  historyIndex,   \* the position of the current entry
  navSteps,       \* link clicks and back steps so far
  lastNavEvent,   \* the last navigation event handled, with the state it found
  \* ---- initialization ------------------------------------------------
  pagePresent,    \* which expected elements and platform features exist
  initPc,         \* the module init() runs next: 1..6, 7 when init() has returned
  registered,     \* the behaviours set up so far
  initError,      \* init() caught an error
  \* ---- one debounced function -------------------------------------------
  now,            \* the clock, in milliseconds
  dbWait,         \* the wait the function was debounced with
  dbTimers,       \* the scheduled calls not yet run or cancelled
  timeout,        \* the handle held by the closure, 0 before the first call
  dbCalls,        \* the calls of the debounced function: time and argument
  dbExecs         \* the executions of func: time, argument and scheduling call

menuVars == <<innerWidth, hasNavContainer, buttons, nav, resizeTimer, initWidth,
              lastEvalWidth, resizeCount, crossDown, crossUp, evalDown, evalUp,
              lastMenuEvent>>
formVars == <<fieldValue, ariaInvalid, errorText, submitButton, pending,
              messages, formChildren, submitCount, lastFormEvent>>
vfVars   == <<vfField, vfOut>>
revealVars == <<hasIntersectionObserver, revealElems, viewChanges>>
headerVars == <<hasHeader, scrollY, scrollTimer, headerScrolled, scrollCount>>
historyVars == <<hasPushState, historyEntries, historyIndex, navSteps, lastNavEvent>>
initVars == <<pagePresent, initPc, registered, initError>>
debounceVars == <<now, dbWait, dbTimers, timeout, dbCalls, dbExecs>>
pageVars == <<revealVars, headerVars, historyVars, initVars, debounceVars>>
vars     == <<menuVars, focus, formVars, vfVars, pageVars>>

----------------------------------------------------------------------------
(* Bounds *)

MaxResizes == 4       \* resize events per behaviour
MaxSubmits == 3       \* submissions started per behaviour
MaxLen     == 4       \* length of the enumerated field values
MaxRevealElements == 2  \* animated elements on the page
MaxViewChanges == 5   \* viewport entries and exits per behaviour
MaxScrolls == 5       \* scroll events per behaviour
MaxNavSteps == 4      \* link clicks and back steps per behaviour

(* Program constants *)

MobileBreakpoint == 768
MinMessageLength == 10

Widths == {600, 767, 768, 1024}

PageFocus == <<"page", 0>>
ToggleFocus(i) == <<"toggle", i>>
FieldFocus(i) == <<"field", i>>

----------------------------------------------------------------------------
(* Mobile menu *)

\* document.querySelector('.mobile-menu-toggle'): the first toggle in the DOM, 0 if none
InDOM(bs) == {i \in 1..Len(bs) : bs[i].inDOM}

existingButton(bs) ==
  IF InDOM(bs) = {} THEN 0 ELSE CHOOSE i \in InDOM(bs) : \A j \in InDOM(bs) : i <= j

\* The menu part of the DOM that the handlers read and write
Dom(bs, n, f) == [buttons |-> bs, nav |-> n, focus |-> f]

\* The click listener of button b
buttonClick(d, b) ==
  LET isExpanded == d.buttons[b].ariaExpanded = "true" IN
  [d EXCEPT
     !.buttons[b].ariaExpanded = IF isExpanded THEN "false" ELSE "true",
     !.nav.ariaHidden = IF isExpanded THEN "true" ELSE "false",
     !.nav.classOpen = ~d.nav.classOpen,
     !.nav.display = IF isExpanded THEN "none" ELSE "flex"]

\* button.focus(): a button that is not in the document cannot take focus
buttonFocus(d, b) ==
  IF d.buttons[b].inDOM THEN [d EXCEPT !.focus = ToggleFocus(b)] ELSE d

\* The document click listener registered for button b, for a target
\* outside the navigation container
outsideClickListener(d, b) ==
  IF d.nav.classOpen THEN buttonClick(d, b) ELSE d

\* The document keydown listener registered for button b, for key Escape
escapeListener(d, b) ==
  IF d.nav.classOpen THEN buttonFocus(buttonClick(d, b), b) ELSE d

\* Listeners of one event run in registration order
RECURSIVE runOutsideClick(_, _)
runOutsideClick(d, i) ==
  IF i > Len(d.buttons) THEN d ELSE runOutsideClick(outsideClickListener(d, i), i + 1)

RECURSIVE runEscape(_, _)
runEscape(d, i) ==
  IF i > Len(d.buttons) THEN d ELSE runEscape(escapeListener(d, i), i + 1)

\* createMobileMenuButton(nav)
createMobileMenuButton(d, present) ==
  IF ~present THEN d
  ELSE [d EXCEPT
          !.buttons = Append(d.buttons, [ariaExpanded |-> "false", inDOM |-> TRUE]),
          !.nav.ariaHidden = "true",
          !.nav.display = "none"]

\* resizeCallback without the check for an existing toggle
resizeCallbackNoCheck(d, width, present) ==
  LET eb == existingButton(d.buttons) IN
  IF width < MobileBreakpoint THEN createMobileMenuButton(d, present)
  ELSE IF width >= MobileBreakpoint /\ eb # 0 THEN
    [d EXCEPT
       !.buttons[eb].inDOM = FALSE,
       !.nav.classOpen = FALSE,
       !.nav.ariaHidden = "none",
       !.focus = IF d.focus = ToggleFocus(eb) THEN PageFocus ELSE d.focus]
  ELSE d

\* resizeCallback with the breakpoint itself counted as a small screen
resizeCallbackInclusive(d, width, present) ==
  LET eb == existingButton(d.buttons) IN
  IF width <= MobileBreakpoint /\ eb = 0 THEN createMobileMenuButton(d, present)
  ELSE IF width > MobileBreakpoint /\ eb # 0 THEN
    [d EXCEPT
       !.buttons[eb].inDOM = FALSE,
       !.nav.classOpen = FALSE,
       !.nav.ariaHidden = "none",
       !.focus = IF d.focus = ToggleFocus(eb) THEN PageFocus ELSE d.focus]
  ELSE d

\* The debounced resize callback of initMobileMenu
resizeCallback(d, width, present) ==
  LET eb == existingButton(d.buttons) IN
  IF width < MobileBreakpoint /\ eb = 0 THEN createMobileMenuButton(d, present)
  ELSE IF width >= MobileBreakpoint /\ eb # 0 THEN
    [d EXCEPT
       !.buttons[eb].inDOM = FALSE,
       !.nav.classOpen = FALSE,
       !.nav.ariaHidden = "none",
       !.focus = IF d.focus = ToggleFocus(eb) THEN PageFocus ELSE d.focus]
  ELSE d

\* initMobileMenu() at load
initMobileMenu(d, width, present) ==
  IF width < MobileBreakpoint THEN createMobileMenuButton(d, present) ELSE d

NavAtLoad == [classOpen |-> FALSE, ariaHidden |-> "none", display |-> ""]

----------------------------------------------------------------------------
(* Strings *)

\* Characters.  A character a string can hold is that character; one it
\* cannot hold is written as the name of its code point, one character of a
\* value like any other.
VerticalTab == ""
NoBreakSpace == " "
OghamSpace == " "
ByteOrderMark == "﻿"
LineSeparator == "U+2028"
ParagraphSeparator == "U+2029"
NarrowNoBreakSpace == "U+202F"
MediumMathSpace == "U+205F"
IdeographicSpace == "U+3000"

\* U+2000 to U+200A, en quad to hair space
QuadToHairSpaces ==
  {"U+2000", "U+2001", "U+2002", "U+2003", "U+2004", "U+2005", "U+2006", "U+2007",
   "U+2008", "U+2009", "U+200A"}

\* The regex class \s, [\f\n\r\t\v\u0020\u00a0\u1680\u2000-\u200a\u2028\u2029
\* \u202f\u205f\u3000\ufeff]; String.prototype.trim strips the same
\* characters
WhiteSpace ==
  {"\f", "\n", "\r", "\t", VerticalTab, " ", NoBreakSpace, OghamSpace}
    \cup QuadToHairSpaces
    \cup {LineSeparator, ParagraphSeparator, NarrowNoBreakSpace, MediumMathSpace,
          IdeographicSpace, ByteOrderMark}

RECURSIVE trimStart(_)
trimStart(s) ==
  IF s # <<>> /\ Head(s) \in WhiteSpace THEN trimStart(Tail(s)) ELSE s

RECURSIVE trimEnd(_)
trimEnd(s) ==
  IF s # <<>> /\ s[Len(s)] \in WhiteSpace THEN trimEnd(SubSeq(s, 1, Len(s) - 1)) ELSE s

\* String.prototype.trim
trim(s) == trimEnd(trimStart(s))

\* The regex class [^\s@]
NotSpaceNotAt(c) == c \notin WhiteSpace /\ c # "@"

\* isValidEmail without the requirement of a character after the dot
isValidEmailOpenEnd(email) ==
  \E i \in 1..Len(email) : \E j \in 1..Len(email) :
    /\ 1 < i /\ i + 1 < j /\ j <= Len(email)
    /\ \A k \in 1..(i - 1) : NotSpaceNotAt(email[k])
    /\ email[i] = "@"
    /\ \A k \in (i + 1)..(j - 1) : NotSpaceNotAt(email[k])
    /\ email[j] = "."
    /\ \A k \in (j + 1)..Len(email) : NotSpaceNotAt(email[k])

\* isValidEmail(email): /^[^\s@]+@[^\s@]+\.[^\s@]+$/.test(email)
isValidEmail(email) ==
  \E i \in 1..Len(email) : \E j \in 1..Len(email) :
    /\ 1 < i /\ i + 1 < j /\ j < Len(email)
    /\ \A k \in 1..(i - 1) : NotSpaceNotAt(email[k])
    /\ email[i] = "@"
    /\ \A k \in (i + 1)..(j - 1) : NotSpaceNotAt(email[k])
    /\ email[j] = "."
    /\ \A k \in (j + 1)..Len(email) : NotSpaceNotAt(email[k])

----------------------------------------------------------------------------
(* Field validation *)

RequiredMessage  == "This field is required"
EmailMessage     == "Please enter a valid email address"
MinLengthMessage == "Message must be at least 10 characters"

\* validateFieldVerdict with a message of exactly 10 characters rejected
validateFieldVerdictOffByOne(field) ==
  LET value == trim(field.value) IN
  IF field.required /\ value = <<>> THEN
    [isValid |-> FALSE, errorMessage |-> RequiredMessage]
  ELSE IF field.type = "email" /\ value # <<>> /\ ~isValidEmail(value) THEN
    [isValid |-> FALSE, errorMessage |-> EmailMessage]
  ELSE IF field.id = "message" /\ value # <<>> /\ Len(value) <= MinMessageLength THEN
    [isValid |-> FALSE, errorMessage |-> MinLengthMessage]
  ELSE
    [isValid |-> TRUE, errorMessage |-> ""]

\* validateField(field), lines 231-250: the verdict and the error message.
\* field is [id, type, required, value, hasErrorElement].
validateFieldVerdict(field) ==
  LET value == trim(field.value) IN
  IF field.required /\ value = <<>> THEN
    [isValid |-> FALSE, errorMessage |-> RequiredMessage]
  ELSE IF field.type = "email" /\ value # <<>> /\ ~isValidEmail(value) THEN
    [isValid |-> FALSE, errorMessage |-> EmailMessage]
  ELSE IF field.id = "message" /\ value # <<>> /\ Len(value) < MinMessageLength THEN
    [isValid |-> FALSE, errorMessage |-> MinLengthMessage]
  ELSE
    [isValid |-> TRUE, errorMessage |-> ""]

\* validateField(field), lines 252-259: the UI update and the return value.
\* ui is [ariaInvalid, errorText] of the field before the call.
validateField(field, ui) ==
  LET v == validateFieldVerdict(field) IN
  [isValid |-> v.isValid,
   ariaInvalid |-> IF v.isValid THEN "false" ELSE "true",
   errorText |-> IF field.hasErrorElement THEN v.errorMessage ELSE ui.errorText]

----------------------------------------------------------------------------
(* Contact form *)

\* The fields of .contact-form in document order (the consumed markup contract)
FormFields ==
  << [id |-> "name",    type |-> "text",     required |-> TRUE],
     [id |-> "email",   type |-> "email",    required |-> TRUE],
     [id |-> "message", type |-> "textarea", required |-> TRUE] >>

FieldIds == 1..Len(FormFields)

Empty     == <<>>
Blank     == <<" ", "\t">>
GoodEmail == <<"a", "@", "b", ".", "c", "o">>
BadEmail  == <<"n", "o", "t", "-", "a", "n", "-", "e", "m", "a", "i", "l">>

\* Values a user types into the form's fields
FormValues == {Empty, Blank, GoodEmail, BadEmail}

\* The value form.reset() gives every field
DefaultValue == Empty

OriginalLabel == "Send Message"
PendingLabel  == "Sending..."

\* Field i of the form as validateField reads it
FieldOf(values, i) ==
  [id |-> FormFields[i].id, type |-> FormFields[i].type,
   required |-> FormFields[i].required, value |-> values[i],
   hasErrorElement |-> TRUE]

\* The part of the form that validation writes: [ariaInvalid, errorText]
Ui(ai, et) == [ariaInvalid |-> ai, errorText |-> et]

\* validateField on field i of the form
validateFormField(values, ui, i) ==
  LET r == validateField(FieldOf(values, i),
                         [ariaInvalid |-> ui.ariaInvalid[i], errorText |-> ui.errorText[i]]) IN
  [ui EXCEPT !.ariaInvalid[i] = r.ariaInvalid, !.errorText[i] = r.errorText]

\* The blur listener of a field runs when focus leaves it
blurEffect(values, ui, from, to) ==
  IF from[1] = "field" /\ to # from THEN validateFormField(values, ui, from[2]) ELSE ui

\* fields.forEach(field => validateField(field)) of the submit listener
RECURSIVE validateAll(_, _, _)
validateAll(values, ui, i) ==
  IF i > Len(FormFields) THEN ui
  ELSE validateAll(values, validateFormField(values, ui, i), i + 1)

\* firstInvalid choosing the last flagged field
lastInvalid(ai) ==
  LET inv == {i \in FieldIds : ai[i] = "true"} IN
  IF inv = {} THEN 0 ELSE CHOOSE i \in inv : \A j \in inv : i >= j

\* form.querySelector('[aria-invalid="true"]'): first in document order, 0 if none
firstInvalid(ai) ==
  LET inv == {i \in FieldIds : ai[i] = "true"} IN
  IF inv = {} THEN 0 ELSE CHOOSE i \in inv : \A j \in inv : i <= j

\* The children the form has in the markup
MarkupChildren == << <<"markup", 1>>, <<"markup", 2>> >>

\* The form as showFormMessage sees it
Form(msgs, children) == [messages |-> msgs, children |-> children]

\* form.querySelector('.form-message'): the first message child, 0 if none
existingMessage(form) ==
  LET at == {k \in 1..Len(form.children) : form.children[k][1] = "message"} IN
  IF at = {} THEN 0 ELSE form.children[CHOOSE k \in at : \A o \in at : k <= o][2]

\* element.remove() on message i: nothing happens when it is not in the form
removeMessage(form, i) ==
  [messages |-> [form.messages EXCEPT ![i].inDOM = FALSE],
   children |-> SelectSeq(form.children, LAMBDA c : c # <<"message", i>>)]

\* showFormMessage that leaves the existing message in place
showFormMessageKeepsOld(form, type) ==
  [messages |-> Append(form.messages, [type |-> type, inDOM |-> TRUE, timer |-> TRUE]),
   children |-> <<<<"message", Len(form.messages) + 1>>>> \o form.children]

\* showFormMessage(form, message, type)
showFormMessage(form, type) ==
  LET existing == existingMessage(form)
      cleared == IF existing # 0 THEN removeMessage(form, existing) ELSE form IN
  [messages |-> Append(cleared.messages, [type |-> type, inDOM |-> TRUE, timer |-> TRUE]),
   children |-> <<<<"message", Len(form.messages) + 1>>>> \o cleared.children]

----------------------------------------------------------------------------
(* State at load *)

SubmitFocus == <<"submit", 0>>

FormAtLoad(present) ==
  /\ fieldValue = [i \in FieldIds |-> DefaultValue]
  /\ ariaInvalid = [i \in FieldIds |-> "none"]
  /\ errorText = [i \in FieldIds |-> ""]
  /\ submitButton = [present |-> present, ariaBusy |-> "none", disabled |-> FALSE,
                     textContent |-> OriginalLabel]
  /\ pending = <<>>
  /\ messages = <<>>
  /\ formChildren = MarkupChildren
  /\ submitCount = 0
  /\ lastFormEvent = [kind |-> "load"]

MenuAtLoad(w, present) ==
  LET d == initMobileMenu(Dom(<<>>, NavAtLoad, PageFocus), w, present) IN
  /\ innerWidth = w
  /\ hasNavContainer = present
  /\ buttons = d.buttons
  /\ nav = d.nav
  /\ resizeTimer = FALSE
  /\ initWidth = w
  /\ lastEvalWidth = w
  /\ resizeCount = 0
  /\ crossDown = 0
  /\ crossUp = 0
  /\ evalDown = 0
  /\ evalUp = 0
  /\ lastMenuEvent = [kind |-> "load", expanded |-> FALSE]

NoField == [id |-> "name", type |-> "text", required |-> FALSE, value |-> <<>>,
            hasErrorElement |-> TRUE]

VfIdle ==
  /\ vfField = NoField
  /\ vfOut = [called |-> FALSE, isValid |-> TRUE, ariaInvalid |-> "none", errorText |-> ""]

----------------------------------------------------------------------------
(* Scroll-triggered reveal *)

RevealElements == 1..MaxRevealElements

\* An animated element after initScrollAnimations(): tagged 'reveal' and
\* observed when the platform has IntersectionObserver, untouched otherwise
revealAtLoad(supported, intersecting) ==
  [reveal |-> supported, revealVisible |-> FALSE, observed |-> supported,
   intersecting |-> intersecting, reported |-> "none", handled |-> 0,
   entered |-> IF intersecting THEN 1 ELSE 0]

\* The observer callback keeping the target under observation
intersectionCallbackKeepsObserving(el, isIntersecting) ==
  IF isIntersecting
  THEN [el EXCEPT !.revealVisible = TRUE, !.handled = el.handled + 1]
  ELSE el

\* The observer callback for one entry (lines 422-427)
intersectionCallback(el, isIntersecting) ==
  IF isIntersecting
  THEN [el EXCEPT !.revealVisible = TRUE, !.observed = FALSE, !.handled = el.handled + 1]
  ELSE el

RevealIdle ==
  /\ hasIntersectionObserver = TRUE
  /\ revealElems = [e \in RevealElements |-> revealAtLoad(TRUE, FALSE)]
  /\ viewChanges = 0

----------------------------------------------------------------------------
(* Header scroll effect *)

ScrollThreshold == 10

\* Vertical offsets the page is scrolled to
ScrollOffsets == {0, 9, 10, 11, 12, 300}

\* The scroll callback with the threshold itself counted as scrolled
handleScrollInclusive(y) == y >= ScrollThreshold

\* The debounced scroll callback (lines 93-99): whether the header has
\* class 'scrolled' after it ran at offset y
handleScroll(y) == y > ScrollThreshold

HeaderIdle ==
  /\ hasHeader = TRUE
  /\ scrollY = 0
  /\ scrollTimer = FALSE
  /\ headerScrolled = FALSE
  /\ scrollCount = 0

----------------------------------------------------------------------------
(* Smooth scroll navigation *)

\* The href of the links matched by 'a[href^="#"]'
Hrefs == {"#", "#home", "#contact", "#missing"}

\* document.querySelector(targetId) finds an element
targetExists(href) == href \in {"#home", "#contact"}

SectionFocus(href) == <<"section", href>>

\* The session history as the click listener sees it
History(entries, index) == [entries |-> entries, index |-> index]

\* The URL update replacing the current entry instead of pushing one
pushStateReplacing(h, url) ==
  [h EXCEPT !.entries[h.index] = url]

\* history.pushState(null, null, url): a new entry after the current one,
\* the entries after the current one are dropped
pushState(h, url) ==
  [entries |-> Append(SubSeq(h.entries, 1, h.index), url), index |-> h.index + 1]

\* The browser's own navigation to a fragment: a new entry unless the URL
\* is already the current one
defaultNavigation(h, url) ==
  IF h.entries[h.index] = url THEN h ELSE pushState(h, url)

\* The click listener of a link (lines 52-77), followed by the browser's
\* default action when it was not prevented
anchorClick(h, href, available) ==
  IF href = "#" THEN defaultNavigation(h, href)
  ELSE IF targetExists(href) THEN (IF available THEN pushState(h, href) ELSE h)
  ELSE defaultNavigation(h, href)

HistoryIdle ==
  /\ hasPushState = TRUE
  /\ historyEntries = <<"">>
  /\ historyIndex = 1
  /\ navSteps = 0
  /\ lastNavEvent = [kind |-> "load", href |-> "", entriesBefore |-> 1]

----------------------------------------------------------------------------
(* Initialization *)

\* The expected elements and platform features of the page
PageFeatures == {"header", "navList", "navContainer", "form", "submitControl",
                 "revealTargets", "home", "contact", "nameField",
                 "IntersectionObserver", "smallScreen"}

Outcome(threw, behaviours) == [threw |-> threw, registered |-> behaviours]

\* initSmoothScroll(): a click listener on every link found
initSmoothScrollOutcome(p) == Outcome(FALSE, {"smoothScroll"})

\* initHeaderScrollEffect()
initHeaderScrollEffectOutcome(p) ==
  IF ~p["header"] THEN Outcome(FALSE, {}) ELSE Outcome(FALSE, {"headerScroll"})

\* createMobileMenuButton(nav) using the navigation container unchecked
createMobileMenuButtonOutcomeUnguarded(p) ==
  IF ~p["navContainer"] THEN Outcome(TRUE, {}) ELSE Outcome(FALSE, {"menuToggle"})

\* createMobileMenuButton(nav)
createMobileMenuButtonOutcome(p) ==
  IF ~p["navContainer"] THEN Outcome(FALSE, {}) ELSE Outcome(FALSE, {"menuToggle"})

\* initMobileMenu()
initMobileMenuOutcome(p) ==
  IF ~p["navList"] THEN Outcome(FALSE, {})
  ELSE LET created == IF p["smallScreen"] THEN createMobileMenuButtonOutcome(p)
                      ELSE Outcome(FALSE, {}) IN
       IF created.threw THEN created
       ELSE Outcome(FALSE, created.registered \cup {"menuResize"})

\* initFormValidation()
initFormValidationOutcome(p) ==
  IF ~p["form"] THEN Outcome(FALSE, {}) ELSE Outcome(FALSE, {"formValidation"})

\* initScrollAnimations()
initScrollAnimationsOutcome(p) ==
  IF ~p["IntersectionObserver"] THEN Outcome(FALSE, {})
  ELSE Outcome(FALSE, (IF p["revealTargets"] THEN {"reveal"} ELSE {}) \cup {"revealStyles"})

\* initKeyboardNavigation()
initKeyboardNavigationOutcome(p) == Outcome(FALSE, {"shortcuts"})

\* The k-th call in the try block of init()
moduleOutcome(k, p) ==
  CASE k = 1 -> initSmoothScrollOutcome(p)
    [] k = 2 -> initHeaderScrollEffectOutcome(p)
    [] k = 3 -> initMobileMenuOutcome(p)
    [] k = 4 -> initFormValidationOutcome(p)
    [] k = 5 -> initScrollAnimationsOutcome(p)
    [] k = 6 -> initKeyboardNavigationOutcome(p)

NumModules == 6

AllPresent == [n \in PageFeatures |-> TRUE]

StartupIdle ==
  /\ pagePresent = AllPresent
  /\ initPc = NumModules + 1
  /\ registered = {"smoothScroll", "headerScroll", "menuToggle", "menuResize",
                   "formValidation", "reveal", "revealStyles", "shortcuts"}
  /\ initError = FALSE

----------------------------------------------------------------------------
(* debounce(func, wait) *)

\* The closure of one debounced function and the timers it has scheduled
Debounce(ts, handle) == [timers |-> ts, timeout |-> handle]

clearTimeout(ts, handle) == {t \in ts : t.id # handle}

\* executedFunction(...args) scheduling without cancelling the pending call
executedFunctionNoCancel(d, arg, time, wait, call) ==
  Debounce(d.timers \cup {[id |-> call, due |-> time + wait, arg |-> arg]}, call)

\* executedFunction(...args) called at `time`; the handle setTimeout returns
\* is the number of the call
executedFunction(d, arg, time, wait, call) ==
  Debounce(clearTimeout(d.timers, d.timeout)
             \cup {[id |-> call, due |-> time + wait, arg |-> arg]}, call)

\* later(), run by timer t
later(d, t) == Debounce(clearTimeout(d.timers \ {t}, d.timeout), d.timeout)

HeaderWait == 10

DebounceIdle ==
  /\ now = 0
  /\ dbWait = HeaderWait
  /\ dbTimers = {}
  /\ timeout = 0
  /\ dbCalls = <<>>
  /\ dbExecs = <<>>

PageIdle ==
  /\ RevealIdle
  /\ HeaderIdle
  /\ HistoryIdle
  /\ StartupIdle
  /\ DebounceIdle

\* init() has run, at any viewport width, with or without a navigation
\* container; the form is the one of the markup contract
InitMenu ==
  /\ \E w \in Widths : \E present \in BOOLEAN : MenuAtLoad(w, present)
  /\ FormAtLoad(TRUE)
  /\ focus = PageFocus
  /\ VfIdle
  /\ PageIdle

DesktopWidth == 1024

\* init() has run on a desktop viewport, with or without a submit control
InitForm ==
  /\ MenuAtLoad(DesktopWidth, TRUE)
  /\ \E present \in BOOLEAN : FormAtLoad(present)
  /\ focus = PageFocus
  /\ VfIdle
  /\ PageIdle

----------------------------------------------------------------------------
(* Focus *)

\* What the blur listener of the field losing focus does to the form
Blur(to) ==
  LET ui == blurEffect(fieldValue, Ui(ariaInvalid, errorText), focus, to) IN
  /\ ariaInvalid' = ui.ariaInvalid
  /\ errorText' = ui.errorText

\* The toggle is expanded and the menu agrees with it
Expanded(bs, n) ==
  LET eb == existingButton(bs) IN
  /\ eb # 0
  /\ bs[eb].ariaExpanded = "true"
  /\ n.classOpen /\ n.ariaHidden = "false" /\ n.display = "flex"

\* The toggle is collapsed and the menu agrees with it
Collapsed(bs, n) ==
  LET eb == existingButton(bs) IN
  /\ eb # 0
  /\ bs[eb].ariaExpanded = "false"
  /\ n.ariaHidden = "true" /\ n.display = "none"

MenuEvent(kind) == [kind |-> kind, expanded |-> Expanded(buttons, nav)]

MenuTargets == {PageFocus} \cup {ToggleFocus(i) : i \in InDOM(buttons)}
FormTargets == {PageFocus, SubmitFocus} \cup {FieldFocus(i) : i \in FieldIds}

\* The user moves keyboard focus (Tab, or a click on a focusable element
\* inside the navigation container or the form)
MoveFocus(to) ==
  /\ to # focus
  /\ focus' = to
  /\ Blur(to)
  /\ lastMenuEvent' = MenuEvent("focus")
  /\ lastFormEvent' = [kind |-> "focus"]
  /\ UNCHANGED <<innerWidth, hasNavContainer, buttons, nav, resizeTimer, initWidth,
                 lastEvalWidth, resizeCount, crossDown, crossUp, evalDown, evalUp>>
  /\ UNCHANGED <<fieldValue, submitButton, pending, messages, formChildren, submitCount>>
  /\ UNCHANGED vfVars
  /\ UNCHANGED pageVars

----------------------------------------------------------------------------
(* Mobile menu events *)

MenuFrame ==
  /\ UNCHANGED <<fieldValue, submitButton, pending, messages, formChildren, submitCount,
                 lastFormEvent>>
  /\ UNCHANGED vfVars
  /\ UNCHANGED pageVars

SetDom(d) ==
  /\ buttons' = d.buttons
  /\ nav' = d.nav
  /\ focus' = d.focus
  /\ Blur(d.focus)

\* A resize event: the debounced wrapper cancels the pending timeout and
\* schedules a new one
Resize(w) ==
  /\ resizeCount < MaxResizes
  /\ innerWidth' = w
  /\ resizeTimer' = TRUE
  /\ resizeCount' = resizeCount + 1
  /\ crossDown' = IF innerWidth >= MobileBreakpoint /\ w < MobileBreakpoint
                  THEN crossDown + 1 ELSE crossDown
  /\ crossUp' = IF innerWidth < MobileBreakpoint /\ w >= MobileBreakpoint
                THEN crossUp + 1 ELSE crossUp
  /\ lastMenuEvent' = MenuEvent("resize")
  /\ UNCHANGED <<hasNavContainer, buttons, nav, initWidth, lastEvalWidth, evalDown, evalUp>>
  /\ UNCHANGED <<focus, ariaInvalid, errorText>>
  /\ MenuFrame

\* The debounce timeout fires, 250 ms after the last resize event
ResizeEval ==
  /\ resizeTimer
  /\ resizeTimer' = FALSE
  /\ SetDom(resizeCallback(Dom(buttons, nav, focus), innerWidth, hasNavContainer))
  /\ lastEvalWidth' = innerWidth
  /\ evalDown' = IF lastEvalWidth >= MobileBreakpoint /\ innerWidth < MobileBreakpoint
                 THEN evalDown + 1 ELSE evalDown
  /\ evalUp' = IF lastEvalWidth < MobileBreakpoint /\ innerWidth >= MobileBreakpoint
               THEN evalUp + 1 ELSE evalUp
  /\ lastMenuEvent' = MenuEvent("resizeEval")
  /\ UNCHANGED <<innerWidth, hasNavContainer, initWidth, resizeCount, crossDown, crossUp>>
  /\ MenuFrame

\* The user activates the toggle that is in the DOM; the click bubbles to
\* the document, whose listeners ignore a target inside the container.
\* Whether a mouse click focuses a button depends on the browser.
ClickToggle ==
  LET eb == existingButton(buttons) IN
  /\ eb # 0
  /\ \E f \in {focus, ToggleFocus(eb)} :
       SetDom(buttonClick(Dom(buttons, nav, f), eb))
  /\ lastMenuEvent' = MenuEvent("toggleClick")
  /\ UNCHANGED <<innerWidth, hasNavContainer, resizeTimer, initWidth, lastEvalWidth,
                 resizeCount, crossDown, crossUp, evalDown, evalUp>>
  /\ MenuFrame

\* A click on the page outside the navigation container
ClickOutside ==
  /\ SetDom(runOutsideClick(Dom(buttons, nav, PageFocus), 1))
  /\ lastMenuEvent' = MenuEvent("outsideClick")
  /\ UNCHANGED <<innerWidth, hasNavContainer, resizeTimer, initWidth, lastEvalWidth,
                 resizeCount, crossDown, crossUp, evalDown, evalUp>>
  /\ MenuFrame

\* The Escape key
PressEscape ==
  /\ SetDom(runEscape(Dom(buttons, nav, focus), 1))
  /\ lastMenuEvent' = MenuEvent("escape")
  /\ UNCHANGED <<innerWidth, hasNavContainer, resizeTimer, initWidth, lastEvalWidth,
                 resizeCount, crossDown, crossUp, evalDown, evalUp>>
  /\ MenuFrame

NextMenu ==
  \/ \E w \in Widths : Resize(w)
  \/ ResizeEval
  \/ ClickToggle
  \/ ClickOutside
  \/ PressEscape
  \/ \E to \in MenuTargets : MoveFocus(to)

SpecMenu == InitMenu /\ [][NextMenu]_vars

----------------------------------------------------------------------------
(* Contact form events *)

FormFrame ==
  /\ UNCHANGED <<innerWidth, hasNavContainer, buttons, nav, resizeTimer, initWidth,
                 lastEvalWidth, resizeCount, crossDown, crossUp, evalDown, evalUp,
                 lastMenuEvent>>
  /\ UNCHANGED vfVars
  /\ UNCHANGED pageVars

\* The input listener re-validating the field on every keystroke
InputValidating(f, v) ==
  /\ focus = FieldFocus(f)
  /\ v # fieldValue[f]
  /\ fieldValue' = [fieldValue EXCEPT ![f] = v]
  /\ LET ui == validateFormField(fieldValue', Ui(ariaInvalid, errorText), f) IN
       /\ errorText' = ui.errorText
       /\ ariaInvalid' = ui.ariaInvalid
  /\ lastFormEvent' = [kind |-> "input", wasInvalid |-> ariaInvalid[f] = "true"]
  /\ UNCHANGED <<focus, submitButton, pending, messages, formChildren, submitCount>>
  /\ FormFrame

\* The input listener of field f: the user types, the value becomes v
Input(f, v) ==
  /\ focus = FieldFocus(f)
  /\ v # fieldValue[f]
  /\ fieldValue' = [fieldValue EXCEPT ![f] = v]
  /\ IF ariaInvalid[f] = "true"
     THEN /\ errorText' = [errorText EXCEPT ![f] = ""]
          /\ ariaInvalid' = [ariaInvalid EXCEPT ![f] = "false"]
     ELSE UNCHANGED <<errorText, ariaInvalid>>
  /\ lastFormEvent' = [kind |-> "input", wasInvalid |-> ariaInvalid[f] = "true"]
  /\ UNCHANGED <<focus, submitButton, pending, messages, formChildren, submitCount>>
  /\ FormFrame

\* handleFormSubmission(form) up to the await
startSubmission(button) ==
  [button EXCEPT !.ariaBusy = "true", !.disabled = TRUE, !.textContent = PendingLabel]

\* The finally block of handleFormSubmission
finishSubmission(button, originalText) ==
  [button EXCEPT !.ariaBusy = "false", !.disabled = FALSE, !.textContent = originalText]

\* The submit listener of the form
Submit ==
  LET ui == validateAll(fieldValue, Ui(ariaInvalid, errorText), 1)
      isFormValid == \A i \in FieldIds : validateFormField(fieldValue, ui, i).ariaInvalid[i] = "false"
      fi == firstInvalid(ui.ariaInvalid) IN
  /\ ariaInvalid' = ui.ariaInvalid
  /\ errorText' = ui.errorText
  /\ IF ~isFormValid THEN
       /\ focus' = IF fi # 0 THEN FieldFocus(fi) ELSE focus
       /\ lastFormEvent' = [kind |-> "submitCancelled"]
       /\ UNCHANGED <<submitButton, pending, submitCount>>
     ELSE IF ~submitButton.present THEN
       /\ lastFormEvent' = [kind |-> "submitNoButton"]
       /\ UNCHANGED <<focus, submitButton, pending, submitCount>>
     ELSE
       /\ submitCount < MaxSubmits
       /\ submitButton' = startSubmission(submitButton)
       /\ pending' = Append(pending, [originalText |-> submitButton.textContent])
       /\ submitCount' = submitCount + 1
       /\ lastFormEvent' = [kind |-> "submitStarted"]
       /\ UNCHANGED focus
  /\ UNCHANGED <<fieldValue, messages, formChildren>>
  /\ FormFrame

\* The 1500 ms timeout of the oldest waiting submission fires: the rest of
\* the try block, then the finally block
SubmitResolve ==
  /\ pending # <<>>
  /\ LET form == showFormMessage(Form(messages, formChildren), "success") IN
       /\ messages' = form.messages
       /\ formChildren' = form.children
  /\ fieldValue' = [i \in FieldIds |-> DefaultValue]
  /\ ariaInvalid' = [i \in FieldIds |-> IF ariaInvalid[i] # "none" THEN "false" ELSE "none"]
  /\ submitButton' = finishSubmission(submitButton, Head(pending).originalText)
  /\ pending' = Tail(pending)
  /\ lastFormEvent' = [kind |-> "submitResolved"]
  /\ UNCHANGED <<focus, errorText, submitCount>>
  /\ FormFrame

\* The 5000 ms timeout of the oldest message whose timer is pending fires
MessageTimeout ==
  LET timers == {i \in 1..Len(messages) : messages[i].timer} IN
  /\ timers # {}
  /\ LET i == CHOOSE t \in timers : \A o \in timers : t <= o
         form == removeMessage(Form(messages, formChildren), i) IN
       /\ messages' = [form.messages EXCEPT ![i].timer = FALSE]
       /\ formChildren' = form.children
  /\ lastFormEvent' = [kind |-> "messageTimeout"]
  /\ UNCHANGED <<focus, fieldValue, ariaInvalid, errorText, submitButton, pending, submitCount>>
  /\ FormFrame

NextForm ==
  \/ \E f \in FieldIds : \E v \in FormValues : Input(f, v)
  \/ Submit
  \/ SubmitResolve
  \/ MessageTimeout
  \/ \E to \in FormTargets : MoveFocus(to)

SpecForm == InitForm /\ [][NextForm]_vars

----------------------------------------------------------------------------
(* validateField on arbitrary fields and values *)

Alphabet == {"a", "@", ".", " ", LineSeparator}

Nine == <<"1", "2", "3", "4", "5", "6", "7", "8", "9">>
Ten  == Nine \o <<"0">>

SpecialValues ==
  {Blank, GoodEmail, BadEmail, Nine, Ten,
   <<" ">> \o Nine \o <<"\t">>, <<"\n">> \o Ten \o <<" ">>,
   <<" ">> \o GoodEmail \o <<"\n">>, <<"a", "\t", "@", "b", ".", "c">>,
   <<"\r">>, <<"\f", "\r">>, <<"\r">> \o GoodEmail \o <<"\f">>,
   <<"a", "\r", "@", "b", ".", "c">>, <<"a", "@", "b", ".", "\f", "c">>,
   <<VerticalTab>>, <<NoBreakSpace, ByteOrderMark>>,
   <<NoBreakSpace>> \o GoodEmail \o <<OghamSpace>>,
   <<"a", VerticalTab, "@", "b", ".", "c">>, <<"a", "@", "b", ".", ByteOrderMark, "c">>,
   <<ParagraphSeparator>>, <<IdeographicSpace, "U+2000", "U+200A">>,
   <<NarrowNoBreakSpace>> \o GoodEmail \o <<MediumMathSpace>>,
   <<"U+2003">> \o Nine \o <<"U+2009">>,
   <<"a", "U+2005", "@", "b", ".", "c">>, <<"a", "@", "b", ".", "c", IdeographicSpace, "o">>,
   <<"a", "@", "b", "@", "c", ".", "d">>, <<"a", ".", "b", "@", "c", "d">>}

VfValues == (UNION {[1..n -> Alphabet] : n \in 0..MaxLen}) \cup SpecialValues

VfFields ==
  [id : {"name", "email", "message"}, type : {"text", "email", "textarea"},
   required : BOOLEAN, value : VfValues, hasErrorElement : BOOLEAN]

InitValidate ==
  /\ MenuAtLoad(DesktopWidth, TRUE)
  /\ FormAtLoad(TRUE)
  /\ focus = PageFocus
  /\ PageIdle
  /\ vfField \in VfFields
  /\ vfOut \in {[called |-> FALSE, isValid |-> TRUE, ariaInvalid |-> "none", errorText |-> ""],
                [called |-> FALSE, isValid |-> FALSE, ariaInvalid |-> "true",
                 errorText |-> RequiredMessage]}

\* One call of validateField(vfField)
ValidateCall ==
  /\ ~vfOut.called
  /\ LET r == validateField(vfField, [ariaInvalid |-> vfOut.ariaInvalid,
                                       errorText |-> vfOut.errorText]) IN
       vfOut' = [called |-> TRUE, isValid |-> r.isValid, ariaInvalid |-> r.ariaInvalid,
                 errorText |-> r.errorText]
  /\ UNCHANGED <<vfField, focus, menuVars, formVars, pageVars>>

NextValidate == ValidateCall

SpecValidate == InitValidate /\ [][NextValidate]_vars

----------------------------------------------------------------------------
(* Properties of the mobile menu, checked under SpecMenu *)

ToggleInDOM == existingButton(buttons)

CreatedAtLoad == IF initWidth < MobileBreakpoint THEN 1 ELSE 0
Created == Len(buttons)
Removed == Cardinality({i \in 1..Len(buttons) : ~buttons[i].inDOM})

\* C1: whenever a toggle is in the DOM, its aria-expanded is 'true' exactly
\* when the menu's aria-hidden is 'false' and the menu is displayed, and
\* 'false' exactly when aria-hidden is 'true' and the display is 'none'.
C1_MenuConsistent ==
  ToggleInDOM # 0 =>
    /\ buttons[ToggleInDOM].ariaExpanded = "true"
         <=> (nav.ariaHidden = "false" /\ nav.display # "none")
    /\ buttons[ToggleInDOM].ariaExpanded = "false"
         <=> (nav.ariaHidden = "true" /\ nav.display = "none")

CollapseTriggers == {"toggleClick", "outsideClick", "escape"}

\* C2: from an expanded menu, a toggle click, an outside click and an Escape
\* press all end with the toggle's expanded flag false, the menu's hidden
\* flag true and the menu hidden.
C2_SameCollapse ==
  (lastMenuEvent.kind \in CollapseTriggers /\ lastMenuEvent.expanded)
    => Collapsed(buttons, nav)

\* C3: Escape on an expanded menu collapses it and leaves keyboard focus on
\* the toggle that is in the DOM.
C3_EscapeFocus ==
  (lastMenuEvent.kind = "escape" /\ lastMenuEvent.expanded)
    => (Collapsed(buttons, nav) /\ focus = ToggleFocus(ToggleInDOM))

\* C4: at most one toggle control is in the DOM.
C4_AtMostOneToggle == Cardinality(InDOM(buttons)) <= 1

\* C4 witness: a toggle was removed and a second one created by resizes
C4_Witness == Len(buttons) >= 2 /\ Cardinality(InDOM(buttons)) = 1 /\ Removed >= 1

\* C5 as stated: once the debounce has settled, the toggles created number
\* the downward crossings of the width, and the toggles removed the upward ones.
C5_OncePerCrossing ==
  (hasNavContainer /\ ~resizeTimer) =>
    (Created = CreatedAtLoad + crossDown /\ Removed = crossUp)

\* C5 amended: a toggle is created exactly once for each debounced evaluation
\* that finds the width below 768 when the previous evaluation (or the load)
\* found it at or above 768, and removed exactly once for each evaluation
\* that finds the opposite; crossings undone before the debounce fires
\* create and remove nothing.
C5_OncePerEvaluatedCrossing ==
  hasNavContainer =>
    /\ Created = CreatedAtLoad + evalDown
    /\ Removed = evalUp
    /\ (ToggleInDOM # 0) <=> (lastEvalWidth < MobileBreakpoint)

\* C5 witness: 1024 -> 600 -> 1024, each width evaluated: one creation, one removal
C5_Witness ==
  /\ hasNavContainer /\ initWidth >= MobileBreakpoint /\ ~resizeTimer
  /\ crossDown = 1 /\ crossUp = 1 /\ evalDown = 1 /\ evalUp = 1
  /\ Created = 1 /\ Removed = 1

----------------------------------------------------------------------------
(* Properties of the contact form, checked under SpecForm *)

FieldValid(i) == validateFieldVerdict(FieldOf(fieldValue, i)).isValid

InvalidFields == {i \in FieldIds : ~FieldValid(i)}

MessagesInDOM == {i \in 1..Len(messages) : messages[i].inDOM}

\* C6: once every submission that started has ended, the submit control is
\* enabled, not busy, and carries the label it had before any submission.
C6_SubmitRestored ==
  (submitCount > 0 /\ pending = <<>>) =>
    /\ ~submitButton.disabled
    /\ submitButton.ariaBusy = "false"
    /\ submitButton.textContent = OriginalLabel

\* C7: while a submission waits out its delay the submit control is disabled,
\* busy and labelled with the pending label; when the delay elapses a success
\* message is shown, every value is reset and no field is flagged invalid.
C7_BusyThenSuccess ==
  /\ pending # <<>> =>
       /\ submitButton.disabled
       /\ submitButton.ariaBusy = "true"
       /\ submitButton.textContent = PendingLabel
  /\ lastFormEvent.kind = "submitResolved" =>
       /\ \E i \in MessagesInDOM : messages[i].type = "success"
       /\ \A i \in FieldIds : fieldValue[i] = DefaultValue /\ ariaInvalid[i] # "true"

SubmitKinds == {"submitCancelled", "submitNoButton", "submitStarted"}

\* C8: a submit event validates every field; with at least one field invalid
\* no submission starts (submit control, feedback messages and field values
\* are unchanged) and focus moves to the first invalid field in document order.
C8_InvalidSubmitCancelled ==
  [][(lastFormEvent'.kind \in SubmitKinds /\ InvalidFields # {}) =>
       /\ \A i \in FieldIds : ariaInvalid'[i] = (IF FieldValid(i) THEN "false" ELSE "true")
       /\ UNCHANGED <<submitButton, pending, messages, fieldValue, submitCount>>
       /\ \E i \in InvalidFields :
            /\ \A j \in InvalidFields : i <= j
            /\ focus' = FieldFocus(i)]_vars

\* C8 witness: a submit was cancelled with the name valid, the email and the
\* message invalid, and focus went to the email field from elsewhere
C8_Witness ==
  /\ lastFormEvent.kind = "submitCancelled"
  /\ InvalidFields = {2, 3}
  /\ ariaInvalid = [i \in FieldIds |-> IF i = 1 THEN "false" ELSE "true"]
  /\ focus = FieldFocus(2)
  /\ pending = <<>> /\ messages = <<>>

----------------------------------------------------------------------------
(* Properties of validateField, checked under SpecValidate *)

\* Whitespace as the language defines it for trimming: the white space
\* characters (tab, vertical tab, form feed, the byte order mark and the
\* space separators of Unicode) and the line terminators
SpaceSeparators ==
  {" ", NoBreakSpace, OghamSpace, NarrowNoBreakSpace, MediumMathSpace, IdeographicSpace}
    \cup {"U+2000", "U+2001", "U+2002", "U+2003", "U+2004", "U+2005", "U+2006",
          "U+2007", "U+2008", "U+2009", "U+200A"}
LineTerminators == {"\n", "\r", LineSeparator, ParagraphSeparator}
SpaceOrTerminator ==
  {"\t", VerticalTab, "\f", ByteOrderMark} \cup SpaceSeparators \cup LineTerminators

NonSpace(s) == {k \in 1..Len(s) : s[k] \notin SpaceOrTerminator}

\* The value without its leading and trailing whitespace
Trimmed(s) ==
  IF NonSpace(s) = {} THEN <<>>
  ELSE SubSeq(s, CHOOSE p \in NonSpace(s) : \A k \in NonSpace(s) : p <= k,
                 CHOOSE q \in NonSpace(s) : \A k \in NonSpace(s) : q >= k)

Ats(s) == {k \in 1..Len(s) : s[k] = "@"}
Dots(s) == {k \in 1..Len(s) : s[k] = "."}

\* local-part@domain.with-a-dot as the claims word it: no whitespace,
\* exactly one '@', at least one '.' after the '@'
StatedPattern(v) ==
  /\ NonSpace(v) = 1..Len(v)
  /\ Cardinality(Ats(v)) = 1
  /\ \E a \in Ats(v) : \E d \in Dots(v) : d > a

\* The same with non-empty parts: the '@' is not the first character, and a
\* '.' after it neither follows it directly nor ends the value
ExactPattern(v) ==
  /\ NonSpace(v) = 1..Len(v)
  /\ Cardinality(Ats(v)) = 1
  /\ \E a \in Ats(v) : \E d \in Dots(v) : 1 < a /\ a + 1 < d /\ d < Len(v)

Judged(valid, text) ==
  /\ vfOut.isValid = valid
  /\ vfOut.ariaInvalid = (IF valid THEN "false" ELSE "true")
  /\ vfField.hasErrorElement => vfOut.errorText = text

\* The verdict and text of three rules in precedence order
FirstMatch(r1, r2, r3) ==
  /\ r1 => Judged(FALSE, "This field is required")
  /\ (~r1 /\ r2) => Judged(FALSE, "Please enter a valid email address")
  /\ (~r1 /\ ~r2 /\ r3) => Judged(FALSE, "Message must be at least 10 characters")
  /\ (~r1 /\ ~r2 /\ ~r3) => Judged(TRUE, "")

Rule1(f) == f.required /\ Trimmed(f.value) = <<>>

\* Rules 2 and 3 on the value as entered
StatedRule2(f) == f.type = "email" /\ f.value # <<>> /\ ~ExactPattern(f.value)
StatedRule3(f) == f.id = "message" /\ f.value # <<>> /\ Len(Trimmed(f.value)) <= 9

\* Rules 2 and 3 on the trimmed value
Rule2(f) == f.type = "email" /\ Trimmed(f.value) # <<>> /\ ~ExactPattern(Trimmed(f.value))
Rule3(f) == f.id = "message" /\ Trimmed(f.value) # <<>> /\ Len(Trimmed(f.value)) <= 9

\* C9 as stated: validateField gives the verdict and text of the four rules
\* in precedence order, first match winning, rules 2 and 3 applying to a
\* non-empty value, and aria-invalid and the error container carry that
\* verdict and text.
C9_FourRulesStated ==
  vfOut.called => FirstMatch(Rule1(vfField), StatedRule2(vfField), StatedRule3(vfField))

\* C9 amended: the same with rules 2 and 3 applying to a value that is
\* non-empty once trimmed, the email pattern being tested on the trimmed
\* value.
C9_FourRules ==
  vfOut.called => FirstMatch(Rule1(vfField), Rule2(vfField), Rule3(vfField))

\* C9 witness: an address entered between whitespace in a required email
\* field is judged valid
C9_Witness ==
  /\ vfOut.called
  /\ vfField.id = "email" /\ vfField.type = "email" /\ vfField.required
  /\ vfField.hasErrorElement
  /\ vfField.value = <<" ">> \o GoodEmail \o <<"\n">>
  /\ vfOut.isValid
  /\ vfOut.ariaInvalid = "false"
  /\ vfOut.errorText = ""

\* C10 as stated: a non-empty value of an email field is judged valid
\* exactly when it has no whitespace, exactly one '@' and at least one '.'
\* after the '@'.
C10_EmailPattern ==
  (vfOut.called /\ vfField.type = "email" /\ vfField.value # <<>>)
    => (vfOut.isValid <=> StatedPattern(vfField.value))

\* C10 amended: for every email field and every value, with v the value
\* without its surrounding whitespace: an empty v is invalid exactly when
\* the field is required; a non-empty v that fails the pattern with
\* non-empty parts is invalid with the email-format message; a non-empty v
\* that matches it is valid, unless the field is the message field and v
\* has fewer than 10 characters.
C10_EmailPatternExact ==
  (vfOut.called /\ vfField.type = "email") =>
    LET v == Trimmed(vfField.value) IN
    /\ v = <<>> => (vfOut.isValid <=> ~vfField.required)
    /\ (v # <<>> /\ ~ExactPattern(v)) =>
         /\ ~vfOut.isValid
         /\ vfOut.ariaInvalid = "true"
         /\ vfField.hasErrorElement => vfOut.errorText = EmailMessage
    /\ (v # <<>> /\ ExactPattern(v)) =>
         (vfOut.isValid <=> ~(vfField.id = "message" /\ Len(v) <= 9))

\* C10 witness: '@a.a' has one '@' and a '.' after it and is judged invalid
C10_Witness ==
  /\ vfOut.called /\ vfField.type = "email" /\ vfField.id = "email"
  /\ vfField.value = <<"@", "a", ".", "a">>
  /\ vfField.hasErrorElement
  /\ ~vfOut.isValid
  /\ vfOut.errorText = EmailMessage

----------------------------------------------------------------------------
(* Input events, checked under SpecForm *)

\* C11: an input event on a field flagged invalid clears the flag and the
\* error text whatever the new value is; on a field not flagged invalid it
\* changes neither; no input event flags a field, and a flag is only ever
\* raised by a blur or a submit.
C11_InputClearsFlag ==
  [][/\ lastFormEvent'.kind = "input" =>
          \A f \in FieldIds :
            IF fieldValue'[f] # fieldValue[f] /\ ariaInvalid[f] = "true"
            THEN ariaInvalid'[f] = "false" /\ errorText'[f] = ""
            ELSE ariaInvalid'[f] = ariaInvalid[f] /\ errorText'[f] = errorText[f]
     /\ (\E f \in FieldIds : ariaInvalid[f] # "true" /\ ariaInvalid'[f] = "true")
          => lastFormEvent'.kind \in {"focus"} \cup SubmitKinds]_vars

\* C11 witness: the email field was flagged, the user typed another invalid
\* value, and the flag and the text are gone
C11_Witness ==
  /\ lastFormEvent.kind = "input" /\ lastFormEvent.wasInvalid
  /\ focus = FieldFocus(2)
  /\ fieldValue[2] = BadEmail
  /\ ariaInvalid[2] = "false" /\ errorText[2] = ""

----------------------------------------------------------------------------
(* Feedback messages, checked under SpecForm *)

MessageChildren == {formChildren[k][2] : k \in {j \in 1..Len(formChildren) : formChildren[j][1] = "message"}}

\* C12: the form holds at most one feedback message; a new message removes
\* the prior one and becomes the form's first child; a message leaves the
\* form when its own timer fires or when it is replaced, and the timer of a
\* replaced message removes nothing else.
C12_SingleMessage ==
  /\ [](/\ Cardinality(MessagesInDOM) <= 1
        /\ MessageChildren = MessagesInDOM
        /\ \A i \in MessagesInDOM : formChildren[1] = <<"message", i>> /\ messages[i].timer)
  /\ [][/\ Len(messages') > Len(messages) =>
             /\ {i \in 1..Len(messages') : messages'[i].inDOM} = {Len(messages')}
             /\ formChildren' = <<<<"message", Len(messages')>>>> \o MarkupChildren
        /\ \A i \in MessagesInDOM :
             ~messages'[i].inDOM =>
               \/ messages[i].timer /\ ~messages'[i].timer
               \/ Len(messages') > Len(messages)]_vars

\* C12 witness: the timer of the replaced first message has just fired and
\* the second message is still the form's first child
C12_Witness ==
  /\ lastFormEvent.kind = "messageTimeout"
  /\ Len(messages) = 2
  /\ ~messages[1].timer /\ ~messages[1].inDOM
  /\ messages[2].timer /\ messages[2].inDOM
  /\ formChildren[1] = <<"message", 2>>
  /\ pending = <<>>

----------------------------------------------------------------------------
(* The failure path of handleFormSubmission *)

\* The waiting calls without the c-th
WithoutCall(calls, c) == SubSeq(calls, 1, c - 1) \o SubSeq(calls, c + 1, Len(calls))

\* The catch block resetting the form as the success path does
SubmitRejectResetting ==
  /\ LET form == showFormMessage(Form(messages, formChildren), "error") IN
       /\ messages' = form.messages
       /\ formChildren' = form.children
  /\ fieldValue' = [i \in FieldIds |-> DefaultValue]
  /\ ariaInvalid' = [i \in FieldIds |-> IF ariaInvalid[i] # "none" THEN "false" ELSE "none"]
  /\ \E c \in 1..Len(pending) :
       /\ submitButton' = finishSubmission(submitButton, pending[c].originalText)
       /\ pending' = WithoutCall(pending, c)
  /\ lastFormEvent' = [kind |-> "submitRejected"]
  /\ UNCHANGED <<focus, errorText, submitCount>>
  /\ FormFrame

\* The awaited submission of one of the waiting calls rejects: the catch
\* block, then the finally block of that call, with the label it captured.
\* The promise of line 338 itself always resolves; the rejection is the
\* outcome of the request that stands in its place, and a later request can
\* fail before an earlier one settles.
SubmitReject ==
  /\ LET form == showFormMessage(Form(messages, formChildren), "error") IN
       /\ messages' = form.messages
       /\ formChildren' = form.children
  /\ \E c \in 1..Len(pending) :
       /\ submitButton' = finishSubmission(submitButton, pending[c].originalText)
       /\ pending' = WithoutCall(pending, c)
  /\ lastFormEvent' = [kind |-> "submitRejected"]
  /\ UNCHANGED <<focus, fieldValue, ariaInvalid, errorText, submitCount>>
  /\ FormFrame

\* The values typed while the failure path is explored
RejectValues == {Empty, GoodEmail, BadEmail}

NextFormReject ==
  \/ \E f \in FieldIds : \E v \in RejectValues : Input(f, v)
  \/ Submit
  \/ SubmitResolve
  \/ SubmitReject
  \/ MessageTimeout
  \/ \E f \in FieldIds : MoveFocus(FieldFocus(f))

SpecFormReject == InitForm /\ [][NextFormReject]_vars

\* C13: when a submission rejects, an error message is shown and no success
\* message, the handler completes (the submit control is released), and the
\* field values and the invalid flags are what they were.
C13_FailureKeepsForm ==
  [][(lastFormEvent'.kind = "submitRejected" /\ Len(pending') < Len(pending)) =>
       /\ fieldValue' = fieldValue
       /\ ariaInvalid' = ariaInvalid
       /\ errorText' = errorText
       /\ \E i \in 1..Len(messages') : messages'[i].inDOM /\ messages'[i].type = "error"
       /\ \A i \in 1..Len(messages') : messages'[i].inDOM => messages'[i].type # "success"
       /\ ~submitButton'.disabled /\ submitButton'.ariaBusy = "false"]_vars

\* C13 witness: a submission of a valid form was rejected; the values are
\* still in the fields and the error message is in the form
C13_Witness ==
  /\ lastFormEvent.kind = "submitRejected"
  /\ fieldValue = <<BadEmail, GoodEmail, BadEmail>>
  /\ ariaInvalid = <<"false", "false", "false">>
  /\ \E i \in MessagesInDOM : messages[i].type = "error"
  /\ pending = <<>>

----------------------------------------------------------------------------
(* Scroll-triggered reveal events *)

Bool2Str(b) == IF b THEN "true" ELSE "false"

InitReveal ==
  /\ MenuAtLoad(DesktopWidth, TRUE)
  /\ FormAtLoad(TRUE)
  /\ focus = PageFocus
  /\ VfIdle
  /\ \E supported \in BOOLEAN :
       /\ hasIntersectionObserver = supported
       /\ \E inView \in SUBSET RevealElements :
            revealElems = [e \in RevealElements |-> revealAtLoad(supported, e \in inView)]
  /\ viewChanges = 0
  /\ HeaderIdle
  /\ HistoryIdle
  /\ StartupIdle
  /\ DebounceIdle

\* Scrolling or resizing takes element e into or out of the observed area
ViewportChange(e) ==
  /\ viewChanges < MaxViewChanges
  /\ viewChanges' = viewChanges + 1
  /\ revealElems' = [revealElems EXCEPT
                       ![e].intersecting = ~revealElems[e].intersecting,
                       ![e].entered = IF revealElems[e].intersecting
                                      THEN revealElems[e].entered
                                      ELSE revealElems[e].entered + 1]
  /\ UNCHANGED <<hasIntersectionObserver, focus, menuVars, formVars, vfVars, headerVars,
                 historyVars, initVars, debounceVars>>

\* The observer delivers one entry for every observed target whose
\* intersection state is not the one it last reported (the first report
\* follows observe()); the callback handles each entry
ObserverNotify ==
  LET batch == {e \in RevealElements :
                  /\ revealElems[e].observed
                  /\ revealElems[e].reported # Bool2Str(revealElems[e].intersecting)} IN
  /\ batch # {}
  /\ revealElems' =
       [e \in RevealElements |->
          IF e \in batch
          THEN [intersectionCallback(revealElems[e], revealElems[e].intersecting)
                  EXCEPT !.reported = Bool2Str(revealElems[e].intersecting)]
          ELSE revealElems[e]]
  /\ UNCHANGED <<hasIntersectionObserver, viewChanges, focus, menuVars, formVars, vfVars,
                 headerVars, historyVars, initVars, debounceVars>>

NextReveal ==
  \/ \E e \in RevealElements : ViewportChange(e)
  \/ ObserverNotify

SpecReveal == InitReveal /\ [][NextReveal]_vars

\* C14: an observed element is revealed at the first intersection reported
\* for it and unobserved at that moment; from then on it stays revealed and
\* is not handled again, so it is revealed exactly once however often it
\* enters and leaves the viewport.
C14_RevealOnce ==
  /\ [](\A e \in RevealElements :
          /\ revealElems[e].handled <= 1
          /\ revealElems[e].revealVisible <=> revealElems[e].handled = 1
          /\ revealElems[e].revealVisible => ~revealElems[e].observed)
  /\ [][\A e \in RevealElements :
          /\ revealElems[e].revealVisible =>
               /\ revealElems'[e].revealVisible
               /\ revealElems'[e].handled = revealElems[e].handled
          /\ (revealElems'[e].reported # revealElems[e].reported
                /\ revealElems'[e].reported = "true") =>
               /\ revealElems'[e].revealVisible
               /\ ~revealElems'[e].observed]_vars

\* C14 witness: element 1 was revealed once, left the viewport and came back
C14_Witness ==
  /\ revealElems[1].revealVisible
  /\ revealElems[1].handled = 1
  /\ revealElems[1].entered >= 2
  /\ revealElems[1].intersecting

----------------------------------------------------------------------------
(* Header scroll events *)

\* initHeaderScrollEffect() has run, with or without a header, the page
\* at any offset
InitHeader ==
  /\ MenuAtLoad(DesktopWidth, TRUE)
  /\ FormAtLoad(TRUE)
  /\ focus = PageFocus
  /\ VfIdle
  /\ RevealIdle
  /\ HistoryIdle
  /\ StartupIdle
  /\ DebounceIdle
  /\ hasHeader \in BOOLEAN
  /\ scrollY \in ScrollOffsets
  /\ scrollTimer = FALSE
  /\ headerScrolled = FALSE
  /\ scrollCount = 0

\* A scroll event: the debounced wrapper cancels the pending timeout and
\* schedules a new one; without a header no listener was registered
Scroll(y) ==
  /\ scrollCount < MaxScrolls
  /\ y # scrollY
  /\ scrollY' = y
  /\ scrollTimer' = hasHeader
  /\ scrollCount' = scrollCount + 1
  /\ UNCHANGED <<hasHeader, headerScrolled, focus, menuVars, formVars, vfVars, revealVars,
                 historyVars, initVars, debounceVars>>

\* The debounce timeout fires, 10 ms after the last scroll event
ScrollEval ==
  /\ scrollTimer
  /\ scrollTimer' = FALSE
  /\ headerScrolled' = handleScroll(scrollY)
  /\ UNCHANGED <<hasHeader, scrollY, scrollCount, focus, menuVars, formVars, vfVars,
                 revealVars, historyVars, initVars, debounceVars>>

NextHeader ==
  \/ \E y \in ScrollOffsets : Scroll(y)
  \/ ScrollEval

SpecHeader == InitHeader /\ [][NextHeader]_vars

\* C15: with a header, once the debounce has settled after the last scroll
\* event, the header is 'scrolled' exactly when the offset is above 10.
C15_ScrolledIffAboveTen ==
  (hasHeader /\ scrollCount > 0 /\ ~scrollTimer) => (headerScrolled <=> scrollY > 10)

\* C15 witness: after several scroll events the page rests at offset 10 and
\* the header is not 'scrolled'
C15_Witness ==
  /\ hasHeader /\ scrollCount >= 2 /\ ~scrollTimer
  /\ scrollY = 10 /\ ~headerScrolled

----------------------------------------------------------------------------
(* Smooth scroll navigation events *)

InitHistory ==
  /\ MenuAtLoad(DesktopWidth, TRUE)
  /\ FormAtLoad(TRUE)
  /\ focus = PageFocus
  /\ VfIdle
  /\ RevealIdle
  /\ HeaderIdle
  /\ StartupIdle
  /\ DebounceIdle
  /\ hasPushState \in BOOLEAN
  /\ historyEntries = <<"">>
  /\ historyIndex = 1
  /\ navSteps = 0
  /\ lastNavEvent = [kind |-> "load", href |-> "", entriesBefore |-> 1]

HistoryFrame ==
  /\ UNCHANGED <<menuVars, fieldValue, submitButton, pending, messages, formChildren,
                 submitCount, lastFormEvent, vfVars, revealVars, headerVars, initVars, debounceVars>>

\* A click on a link with the given href; the target takes focus when it
\* is focusable
ClickAnchor(href) ==
  LET h == anchorClick(History(historyEntries, historyIndex), href, hasPushState) IN
  /\ navSteps < MaxNavSteps
  /\ navSteps' = navSteps + 1
  /\ historyEntries' = h.entries
  /\ historyIndex' = h.index
  /\ \E to \in {focus} \cup (IF targetExists(href) /\ href # "#"
                             THEN {SectionFocus(href)} ELSE {}) :
       /\ focus' = to
       /\ Blur(to)
  /\ lastNavEvent' = [kind |-> IF href # "#" /\ targetExists(href)
                               THEN "anchorClick" ELSE "defaultClick",
                      href |-> href, entriesBefore |-> Len(historyEntries)]
  /\ UNCHANGED hasPushState
  /\ HistoryFrame

\* The user goes back one entry
Back ==
  /\ navSteps < MaxNavSteps
  /\ historyIndex > 1
  /\ navSteps' = navSteps + 1
  /\ historyIndex' = historyIndex - 1
  /\ lastNavEvent' = [kind |-> "back", href |-> historyEntries[historyIndex - 1],
                      entriesBefore |-> Len(historyEntries)]
  /\ UNCHANGED <<hasPushState, historyEntries, focus, ariaInvalid, errorText>>
  /\ HistoryFrame

NextHistory ==
  \/ \E href \in Hrefs : ClickAnchor(href)
  \/ Back

SpecHistory == InitHistory /\ [][NextHistory]_vars

\* C16 as stated: after a click on a link whose target exists the URL
\* fragment is the link's target and the history has as many entries as
\* before the click.
C16_NoNewEntry ==
  lastNavEvent.kind = "anchorClick" =>
    /\ historyEntries[historyIndex] = lastNavEvent.href
    /\ Len(historyEntries) = lastNavEvent.entriesBefore

\* C16 amended: with history.pushState available, such a click pushes one
\* new entry for the link's target directly after the current entry: the
\* current position grows by one, the entries up to the old position are
\* kept and those after it are dropped; without pushState the history is
\* left alone.
C16_PushesOneEntry ==
  [][lastNavEvent'.kind = "anchorClick" =>
       IF hasPushState
       THEN /\ historyIndex' = historyIndex + 1
            /\ Len(historyEntries') = historyIndex + 1
            /\ historyEntries'[historyIndex'] = lastNavEvent'.href
            /\ SubSeq(historyEntries', 1, historyIndex)
                 = SubSeq(historyEntries, 1, historyIndex)
       ELSE UNCHANGED <<historyEntries, historyIndex>>]_vars

\* C16 witness: two clicks on links with existing targets made two entries
C16_Witness ==
  /\ lastNavEvent.kind = "anchorClick"
  /\ hasPushState
  /\ historyEntries = <<"", "#home", "#contact">>
  /\ historyIndex = 3


----------------------------------------------------------------------------
(* Initialization with elements present or absent *)

\* init() is about to run on a page with any combination of the expected
\* elements and platform features
InitStartup ==
  /\ MenuAtLoad(DesktopWidth, TRUE)
  /\ FormAtLoad(TRUE)
  /\ focus = PageFocus
  /\ VfIdle
  /\ RevealIdle
  /\ HeaderIdle
  /\ HistoryIdle
  /\ DebounceIdle
  /\ pagePresent \in [PageFeatures -> BOOLEAN]
  /\ initPc = 1
  /\ registered = {}
  /\ initError = FALSE

\* The next call of the try block of init(); an exception leaves the block
InitStep ==
  /\ initPc <= NumModules
  /\ LET out == moduleOutcome(initPc, pagePresent) IN
       /\ registered' = registered \cup out.registered
       /\ initError' = out.threw
       /\ initPc' = IF out.threw THEN NumModules + 1 ELSE initPc + 1
  /\ UNCHANGED <<pagePresent, focus, menuVars, formVars, vfVars, revealVars, headerVars,
                 historyVars, debounceVars>>

NextStartup == InitStep

SpecStartup == InitStartup /\ [][NextStartup]_vars

\* C17: whatever elements are pagePresent or absent, init() runs its six
\* modules without an error; a module whose element is absent registers
\* nothing, and every module whose elements are pagePresent registers its
\* behaviour, independently of the other modules.
C17_IndependentModules ==
  /\ ~initError
  /\ initPc = NumModules + 1 =>
       /\ "smoothScroll" \in registered
       /\ "shortcuts" \in registered
       /\ "headerScroll" \in registered <=> pagePresent["header"]
       /\ "menuResize" \in registered <=> pagePresent["navList"]
       /\ "menuToggle" \in registered <=>
            (pagePresent["navList"] /\ pagePresent["navContainer"] /\ pagePresent["smallScreen"])
       /\ "formValidation" \in registered <=> pagePresent["form"]
       /\ "revealStyles" \in registered <=> pagePresent["IntersectionObserver"]
       /\ "reveal" \in registered <=>
            (pagePresent["IntersectionObserver"] /\ pagePresent["revealTargets"])

\* init() has returned on a small screen whose navigation list has no
\* container and which has no header: the form is still set up
C17_Witness ==
  /\ initPc = NumModules + 1
  /\ pagePresent["smallScreen"] /\ pagePresent["navList"] /\ ~pagePresent["navContainer"]
  /\ ~pagePresent["header"] /\ pagePresent["form"]
  /\ registered = {"smoothScroll", "menuResize", "formValidation", "shortcuts"}
                     \cup (IF pagePresent["IntersectionObserver"]
                           THEN {"revealStyles"} \cup
                                (IF pagePresent["revealTargets"] THEN {"reveal"} ELSE {})
                           ELSE {})

----------------------------------------------------------------------------
(* Bursts of calls of a debounced function *)

MaxCalls == 4
MaxTime == 7

Waits == {2, 3}
Args == {"a", "b"}

InitDebounce ==
  /\ MenuAtLoad(DesktopWidth, TRUE)
  /\ FormAtLoad(TRUE)
  /\ focus = PageFocus
  /\ VfIdle
  /\ RevealIdle
  /\ HeaderIdle
  /\ HistoryIdle
  /\ StartupIdle
  /\ now = 0
  /\ dbWait \in Waits
  /\ dbTimers = {}
  /\ timeout = 0
  /\ dbCalls = <<>>
  /\ dbExecs = <<>>

DebounceFrame ==
  UNCHANGED <<dbWait, focus, menuVars, formVars, vfVars, revealVars, headerVars,
              historyVars, initVars>>

Due == {t \in dbTimers : t.due <= now}

\* The debounced function is called with argument arg; a scheduled call
\* that is due and has not run yet is cancelled like any other
DebouncedCall(arg) ==
  /\ Len(dbCalls) < MaxCalls
  /\ LET call == Len(dbCalls) + 1
         d == executedFunction(Debounce(dbTimers, timeout), arg, now, dbWait, call) IN
       /\ dbTimers' = d.timers
       /\ timeout' = d.timeout
  /\ dbCalls' = Append(dbCalls, [time |-> now, arg |-> arg])
  /\ UNCHANGED <<now, dbExecs>>
  /\ DebounceFrame

\* The timer task of a scheduled call runs, at its due time or later:
\* later()
TimerFire ==
  /\ \E t \in Due :
       /\ \A u \in Due : t.due <= u.due
       /\ LET d == later(Debounce(dbTimers, timeout), t) IN
            /\ dbTimers' = d.timers
            /\ timeout' = d.timeout
       /\ dbExecs' = Append(dbExecs, [time |-> now, arg |-> t.arg, call |-> t.id])
  /\ UNCHANGED <<now, dbCalls>>
  /\ DebounceFrame

\* A millisecond passes; setTimeout never runs a call early, and a busy
\* thread or an event handled first can make it late
Tick ==
  /\ now < MaxTime
  /\ now' = now + 1
  /\ UNCHANGED <<dbTimers, timeout, dbCalls, dbExecs>>
  /\ DebounceFrame

NextDebounce ==
  \/ \E arg \in Args : DebouncedCall(arg)
  \/ TimerFire
  \/ Tick

SpecDebounce == InitDebounce /\ [][NextDebounce]_vars

\* Call i is the last of its burst: no call follows it within the wait
LastOfBurst(i) ==
  \/ i = Len(dbCalls)
  \/ dbCalls[i + 1].time - dbCalls[i].time >= dbWait

\* The wait after call i has passed: its scheduled call is no longer
\* pending at the due time, or the due time is over
Settled(i) ==
  \/ dbCalls[i].time + dbWait < now
  \/ dbCalls[i].time + dbWait = now /\ \A t \in dbTimers : t.id # i

ExecutionsOf(i) == {k \in 1..Len(dbExecs) : dbExecs[k].call = i}

\* C18 as stated: func executes exactly once per burst, wait milliseconds
\* after the last call of the burst and with that call's argument; no
\* earlier call of a burst executes, and at most one scheduled call is
\* pending.
C18_OncePerBurst ==
  /\ Cardinality(dbTimers) <= 1
  /\ \A i \in 1..Len(dbCalls) :
       IF LastOfBurst(i) /\ Settled(i)
       THEN /\ Cardinality(ExecutionsOf(i)) = 1
            /\ \A k \in ExecutionsOf(i) :
                 /\ dbExecs[k].time = dbCalls[i].time + dbWait
                 /\ dbExecs[k].arg = dbCalls[i].arg
       ELSE ExecutionsOf(i) = {}

\* C18 amended: at most one scheduled call is pending, and it is the one of
\* the latest call; a call executes at most once, with its own argument, no
\* earlier than the wait after it and only if no other call was made before
\* its scheduled call ran; a call followed by another within the wait never
\* executes, and the latest call is either pending or has executed.
C18_LastCallOnly ==
  /\ Cardinality(dbTimers) <= 1
  /\ \A t \in dbTimers :
       /\ t.id = Len(dbCalls)
       /\ t.due = dbCalls[t.id].time + dbWait
       /\ t.arg = dbCalls[t.id].arg
  /\ \A i \in 1..Len(dbCalls) :
       /\ Cardinality(ExecutionsOf(i)) <= 1
       /\ \A k \in ExecutionsOf(i) :
            /\ dbExecs[k].time >= dbCalls[i].time + dbWait
            /\ dbExecs[k].arg = dbCalls[i].arg
            /\ i < Len(dbCalls) => dbExecs[k].time <= dbCalls[i + 1].time
       /\ ~LastOfBurst(i) => ExecutionsOf(i) = {}
       /\ i = Len(dbCalls) => (ExecutionsOf(i) = {} <=> \E t \in dbTimers : t.id = i)

\* Two calls within the wait, the second executed late; a third call whose
\* scheduled call was due and was cancelled by a fourth, which is pending
C18_Witness ==
  /\ Len(dbCalls) = 4
  /\ dbCalls[1].time < dbCalls[2].time
  /\ dbCalls[1].arg # dbCalls[2].arg
  /\ ~LastOfBurst(1)
  /\ \E k \in ExecutionsOf(2) : dbExecs[k].time > dbCalls[2].time + dbWait
  /\ LastOfBurst(3) /\ ExecutionsOf(3) = {}
  /\ \E t \in dbTimers : t.id = 4

----------------------------------------------------------------------------
(* Removed toggle controls, checked under SpecMenu *)

NavCollapsed == [classOpen |-> FALSE, ariaHidden |-> "true", display |-> "none"]

\* C19: an outside click or an Escape press on an expanded menu performs one
\* toggle action on the toggle in the DOM, which collapses the menu, and
\* changes no toggle that has been removed.
C19_RemovedToggleInert ==
  [][(lastMenuEvent'.kind \in {"outsideClick", "escape"} /\ Expanded(buttons, nav)) =>
       /\ buttons' = [buttons EXCEPT ![ToggleInDOM].ariaExpanded = "false"]
       /\ nav' = NavCollapsed]_vars

\* C20: after the resize callback has removed the toggle at a width of 768
\* or more, the menu has no aria-hidden, no mobile-menu-open class and an
\* inline display other than 'none'.
C20_VisibleAfterRemoval ==
  [][(lastMenuEvent'.kind = "resizeEval" /\ ToggleInDOM # 0 /\ InDOM(buttons') = {}) =>
       /\ innerWidth >= MobileBreakpoint
       /\ nav'.ariaHidden = "none"
       /\ ~nav'.classOpen
       /\ nav'.display # "none"]_vars
====
